---- MODULE Spec2Model ----
(***************************************************************************)
(* Headlock server: the session manager (src/src/session_manager.py) and   *)
(* the coordinator handlers of src/src/server.py, as an asyncio program:   *)
(* one step of the model is what a handler runs between two suspension     *)
(* points (an await that really suspends).                                 *)
(***************************************************************************)
EXTENDS Integers, Sequences, FiniteSets, TLC

\* ---------------------------------------------------------------- bounds
\* Event objects that can be alive at once (one per stored session and one
\* per caller still holding a reference to a removed session's event).
MaxEventObjects == 4

Callers == {"c1", "c2"}          \* concurrent begin/continue requests
UserIds == {"x"}                 \* session ids a client can make up
Uuids == {"u"}                   \* ids uuid4 hands out (models.py:20)
Ids == UserIds \cup Uuids
Values == {"a", "b"}             \* instruction texts
None == "None"                   \* Python's None
Contexts == {None, "c"}          \* the optional context argument
Sockets == {"w1", "w2"}          \* operator push connections
OneSocket == {"w1"}
GlobalKey == "global"            \* server.py:66
Keys == Ids \cup {GlobalKey}     \* keys of active_websockets
EventIds == 1..MaxEventObjects

WAITING == "waiting"
PROCESSING == "processing"
COMPLETED == "completed"
TERMINATED == "terminated"
SessionState == {WAITING, PROCESSING, COMPLETED, TERMINATED}

VARIABLES
    sessions,            \* SessionManager._sessions: id -> HeadlockSession
    instruction_events,  \* SessionManager._instruction_events: id -> event object
    event_value,         \* asyncio.Event._value of every event object
    active_websockets,   \* server.active_websockets: key -> set of sockets
    ws_handler,          \* per socket: the endpoint loop it runs and its key
    pc,                  \* per caller: where its begin/continue handler stands
    call,                \* per caller: the request in flight (sid, event held)
    generated,           \* the uuids models.py has handed out
    created,             \* history: every id a session was ever created under
    seen,                \* history: per caller, what was accepted on its
                         \* conversation since it started to block
    crossed,             \* history: per caller, its last block timed out
    ret,                 \* what the caller handler that ran in this step returned
    response,            \* what the operator handler that ran in this step answered
    published,           \* the events broadcast_to_terminals sent in this step
    sent                 \* per socket: the messages pushed to it in this step

vars == <<sessions, instruction_events, event_value, active_websockets,
          ws_handler, pc, call, generated, created, seen, crossed, ret,
          response, published, sent>>

\* ------------------------------------------------------------ data model
\* (variant) a new session starts as one that is being worked on
HeadlockSessionProcessing(context) ==
    [state |-> PROCESSING, agent_context |-> context,
     pending_instruction |-> None, last_response |-> None]

\* HeadlockSession(agent_context=context): models.py:18-27
HeadlockSession(context) ==
    [state |-> WAITING, agent_context |-> context,
     pending_instruction |-> None, last_response |-> None]

\* Where a handler stands in broadcast_to_terminals while one of its pushes
\* is suspended: the message, the loop (1: lines 58-62, 2: lines 68-72) and
\* the key of the set it iterates, the members of that set when the
\* iteration started, the sockets whose push has raised so far and the
\* socket of the suspended push.
NoIter == [message |-> None, loop |-> 0, key |-> None, snap |-> {}, dead |-> {},
           at |-> None]

NoCall == [sid |-> None, ev |-> 0, slept |-> FALSE, shared |-> FALSE,
           iter |-> NoIter]
NoRet ==
    [kind |-> "none", op |-> "none", given |-> None, context |-> None, caller |-> None, session_id |-> None,
     instruction |-> None, should_terminate |-> FALSE, by |-> "none",
     slept |-> FALSE, seen |-> {}, crossed |-> FALSE, shared |-> FALSE]
NoResponse ==
    [entry |-> "none", op |-> "none", given |-> None, context |-> None, sid |-> None, status |-> "none",
     success |-> FALSE, listing |-> {}]
NoHandler == [endpoint |-> "none", key |-> None, open |-> FALSE]

\* (variant) an absent context is passed on as it is
OrEmptyAsGiven(context) == context

\* "context or ''" at server.py:114 and :138
OrEmpty(context) == IF context = None THEN "" ELSE context

\* (variant) the deletion empties the dict
DelAll(f, k) == [i \in {} |-> f[i]]

\* dict[key] = value and del dict[key]
Put(f, k, v) == [i \in DOMAIN f \cup {k} |-> IF i = k THEN v ELSE f[i]]
Del(f, k) == [i \in DOMAIN f \ {k} |-> f[i]]

\* An event message as broadcast_to_terminals serialises it.
Event(type, sid) == [type |-> type, session_id |-> sid]

\* --------------------------------------------------- session_manager.py
\* (variant) the re-arm also resets the slot
update_context_reset(s, context) ==
    [s EXCEPT !.agent_context = context, !.last_response = context,
              !.state = WAITING, !.pending_instruction = None]

\* update_context, lines 115-118, on the record found at line 111
update_context(s, context) ==
    [s EXCEPT !.agent_context = context, !.last_response = context,
              !.state = WAITING]

\* (variant) a second delivery is merged into the pending one
send_instruction_merge(s, instruction) ==
    [s EXCEPT !.pending_instruction = IF @ = None THEN instruction ELSE "merged"]

\* (variant) the delivery also moves the conversation on
send_instruction_processing(s, instruction) ==
    [s EXCEPT !.pending_instruction = instruction, !.state = PROCESSING]

\* send_instruction, line 85
send_instruction(s, instruction) ==
    [s EXCEPT !.pending_instruction = instruction]

\* (variant) the tap-out ends the conversation as completed
tap_out_completes(s) == [s EXCEPT !.state = COMPLETED]

\* (variant) the tap-out also empties the slot
tap_out_clears(s) == [s EXCEPT !.state = TERMINATED, !.pending_instruction = None]

\* tap_out, line 100
tap_out(s) == [s EXCEPT !.state = TERMINATED]

\* complete_session, line 127
complete_session(s) == [s EXCEPT !.state = COMPLETED]

\* (variant) the wake leaves the slot as it found it
AfterWakeKeepsSlot(s) ==
    [s EXCEPT !.state = IF s.state = TERMINATED THEN TERMINATED ELSE PROCESSING]

\* wait_for_instruction after the wake, lines 66-77: the record left behind
AfterWake(s) ==
    [s EXCEPT !.pending_instruction = None,
              !.state = IF s.state = TERMINATED THEN TERMINATED ELSE PROCESSING]

\* (variant) a conversation found terminated at the wake is dropped
WakeStoreDropsTerminated(S, sid) ==
    IF S[sid].state = TERMINATED THEN Del(S, sid)
    ELSE [S EXCEPT ![sid] = AfterWake(@)]

\* wait_for_instruction after the wake, lines 62-75, on the dict S: the
\* record of sid is rewritten in place, no key is added or deleted.
WakeStore(S, sid) == [S EXCEPT ![sid] = AfterWake(@)]

\* (variant) the slot is read after it was cleared
WakeInstructionCleared(s) == None

\* wait_for_instruction after the wake, lines 66-67 and 77: the pair returned
WakeInstruction(s) == s.pending_instruction

\* (variant) every conversation that is not waiting counts as ended
WakeShouldTerminateNotWaiting(s) == s.state # WAITING

\* wait_for_instruction after the wake, line 67
WakeShouldTerminate(s) == s.state = TERMINATED

\* (variant) the timeout path tidies the slot as the wake path does
AfterTimeoutCleared(s) == [s EXCEPT !.pending_instruction = None]

\* wait_for_instruction on asyncio.TimeoutError, lines 58-59: the record left
\* behind.  The except branch returns and writes nothing.
AfterTimeout(s) == s

\* (variant) the wait always sleeps until the next set()
WaitOverNever(V, e) == FALSE

\* event.wait() at lines 55-57 with the flags V: over at once when the flag of
\* event object e is already up.
WaitOver(V, e) == V[e]

\* A stored session as the listings show it (server.py:198-205, :215-222).
SessionInfoResponse(S, i) ==
    [session_id |-> i, state |-> S[i].state, agent_context |-> S[i].agent_context,
     last_response |-> S[i].last_response]

\* get_all_sessions, line 34
get_all_sessions(S) == {SessionInfoResponse(S, i) : i \in DOMAIN S}

\* (variant) the filter only leaves ended sessions out
get_waiting_sessions_unended(S) ==
    {r \in get_all_sessions(S) : r.state \notin {TERMINATED, COMPLETED}}

\* get_waiting_sessions, line 38
get_waiting_sessions(S) == {r \in get_all_sessions(S) : r.state = WAITING}

\* The callers suspended in event.wait() on event object e.
Waiters(e) == {c \in Callers : pc[c] = "blocked" /\ call[c].ev = e}

\* asyncio.Event.set(): the flag goes up and every waiter's future is resolved;
\* the waiters run again only when the loop schedules them.
SetWakes(e) == Waiters(e)

\* Event objects something still refers to.
LiveEvents(events, calls) ==
    {events[i] : i \in DOMAIN events} \cup {calls[c].ev : c \in Callers}

\* asyncio.Event() at session_manager.py:25: a new object, flag down.
FreshEvent == CHOOSE e \in EventIds :
    /\ e \notin LiveEvents(instruction_events, call)
    /\ \A f \in EventIds : f < e => f \in LiveEvents(instruction_events, call)

\* An event object nobody refers to is garbage: its flag is dropped with it.
Collect(values, events, calls) ==
    [e \in EventIds |-> IF e \in LiveEvents(events, calls) THEN values[e] ELSE FALSE]

\* ------------------------------------------------------------ server.py
\* "await ws.send_text(message)", line 60 and 70: it goes through on a
\* connection that is open and raises on one that is gone.
Open(w) == ws_handler[w].open

\* The sockets of a group whose push raises: dead_connections, lines 57-62.
DeadConnections(group) == {w \in group : ~Open(w)}

\* (variant) the dead connections are collected and left in the group
PruneSkipped(group, dead) == group

\* "active_websockets[key] -= dead_connections", lines 63 and 73
Prune(group, dead) == group \ dead

\* active_websockets after one loop of the broadcast ran over key to its end
\* (lines 56-63 for the session id, lines 66-73 for "global").
AfterLoop(A, key) == [A EXCEPT ![key] = Prune(@, DeadConnections(@))]

\* Whether a broadcast for sid has an open socket to send to (lines 56-73):
\* only then can "await ws.send_text" suspend the handler.
HasSinks(sid) ==
    \E w \in active_websockets[sid] \cup active_websockets[GlobalKey] : Open(w)

\* broadcast_to_terminals, lines 56-73: the pushes of one message that reach
\* socket w, first by the loop over the sockets registered under the
\* message's session id, then by the loop over those registered under
\* "global" (as the first loop left that set).
Pushes(w, message) ==
    (IF w \in active_websockets[message.session_id] /\ Open(w)
     THEN <<message>> ELSE <<>>)
        \o (IF /\ w \in AfterLoop(active_websockets, message.session_id)[GlobalKey]
               /\ Open(w)
            THEN <<message>> ELSE <<>>)

NoneSent == [w \in Sockets |-> <<>>]

\* The broadcasts of one handler step (none or one) and what they push.
Publish(messages) ==
    /\ published' = messages
    /\ sent' = IF messages = <<>> THEN NoneSent
               ELSE [w \in Sockets |-> Pushes(w, messages[1])]

\* broadcast_to_terminals, lines 47-73, run from start to end in one step.
Broadcast(message) ==
    /\ Publish(<<message>>)
    /\ active_websockets' = AfterLoop(AfterLoop(active_websockets,
                                                 message.session_id), GlobalKey)

\* The push that suspends, when one does: the last one of the broadcast, in
\* the loop over "global" when that set has an open socket, else in the loop
\* over the session's own set.
SuspendLoop(sid) ==
    IF DeadConnections(AfterLoop(active_websockets, sid)[GlobalKey])
          # AfterLoop(active_websockets, sid)[GlobalKey]
    THEN 2 ELSE 1

Iteration(message, at) ==
    LET sid == message.session_id
        loop == SuspendLoop(sid)
        key == IF loop = 2 THEN GlobalKey ELSE sid
        snap == IF loop = 2 THEN AfterLoop(active_websockets, sid)[GlobalKey]
                ELSE active_websockets[sid]
    IN [message |-> message, loop |-> loop, key |-> key, snap |-> snap,
        dead |-> DeadConnections(snap), at |-> at]

\* (variant) no lookup before the update
SessionFoundAlways(session_id) == TRUE

\* _continue_headlock, lines 134-136: the lookup that decides the 404
SessionFound(session_id) == session_id \in DOMAIN sessions

\* (variant) the check only keeps ended sessions out
HttpInstructAllowedUnlessEnded(s) == s.state \notin {TERMINATED, COMPLETED}

\* send_instruction endpoint, line 251: the state check of the HTTP path
HttpInstructAllowed(s) == s.state = WAITING

\* ------------------------------------------------------- history helpers
\* A caller is attentive to sid while its request on sid is in flight, and
\* after a block on sid that timed out (until it calls again or returns).
Attentive(c, sid) == call[c].sid = sid \/ crossed[c] = sid
Blocking(c, sid) == call[c].sid = sid /\ pc[c] \in {"blocked", "woken"}

\* A history is the set of instruction values accepted for the caller's
\* conversation since its request started, or one of three marks: the
\* conversation was removed, or terminated, while the caller was in its
\* block; or something else than deliveries happened to it (a terminate or
\* remove before the block, another caller on the same conversation).
Removed == {"removed"}
Tapped == {"tapped"}
Mixed == {"mixed"}
\* A fourth mark: the conversation was terminated before the caller's
\* continue started, and nothing else happened to it since.
TappedBefore == {"tapped_before"}

Extend(h, c, sid, tag) ==
    IF ~Attentive(c, sid) \/ h \in {Removed, Tapped} THEN h
    ELSE IF tag = "delete" THEN (IF Blocking(c, sid) THEN Removed ELSE Mixed)
    ELSE IF tag = "tap_out" THEN (IF Blocking(c, sid) THEN Tapped ELSE Mixed)
    ELSE IF tag = "other" \/ h \in {Mixed, TappedBefore} THEN Mixed
    ELSE h \cup {tag}

\* What an accepted operator operation on sid adds to the callers' histories.
Noted(sid, tag) == [c \in Callers |-> Extend(seen[c], c, sid, tag)]

\* What caller c acting on sid does to the histories: the others that are
\* attentive to sid note another caller; c's own history becomes mine.
NotedCaller(c, sid, mine) ==
    [d \in Callers |-> IF d = c THEN mine ELSE Extend(seen[d], d, sid, "other")]

\* The history c starts a request on sid with.
SeenAtStart(c, sid) ==
    IF \E d \in Callers \ {c} : call[d].sid = sid THEN Mixed
    ELSE IF crossed[c] = sid THEN seen[c]
    ELSE {}

\* The requests in flight once c has run again after its wake: c's is over,
\* and a caller that set() resolved together with c (both slept on the same
\* event object and neither has run since) is marked as sharing the signal.
Served(c) ==
    [d \in Callers |->
        IF d = c THEN NoCall
        ELSE IF /\ call[c].slept /\ pc[d] = "woken" /\ call[d].slept
                /\ call[d].ev = call[c].ev
        THEN [call[d] EXCEPT !.shared = TRUE]
        ELSE call[d]]

\* The history c starts a continue on a stored sid with: the terminate that
\* nobody has observed yet (state TERMINATED, signal still set, no caller in
\* flight on sid or back from a timed-out block on it) is noted.
SeenAtContinue(c, sid) ==
    IF /\ sessions[sid].state = TERMINATED
       /\ event_value[instruction_events[sid]]
       /\ \A d \in Callers : call[d].sid # sid /\ crossed[d] # sid
    THEN TappedBefore
    ELSE SeenAtStart(c, sid)

\* The step of a caller handler and, when the step is the start of a begin
\* or a continue, the arguments of the tool call (server.py:159-182).
Request(op, session_id, context) ==
    [op |-> op, given |-> session_id, context |-> context]

Stage(op) == Request(op, None, None)

\* What a caller handler did in this step: op names the step, kind says
\* whether the request returned a result, failed with 404 or is still pending.
Return(c, req, sid, instruction, should_terminate, by) ==
    [kind |-> "return", op |-> req.op, given |-> req.given,
     context |-> req.context, caller |-> c, session_id |-> sid,
     instruction |-> instruction, should_terminate |-> should_terminate,
     by |-> by, slept |-> call[c].slept, seen |-> seen[c],
     crossed |-> crossed[c] = sid, shared |-> call[c].shared]

NotFound(c, req, sid) ==
    [NoRet EXCEPT !.kind = "not_found", !.op = req.op, !.given = req.given,
                  !.context = req.context, !.caller = c, !.session_id = sid]

\* The exception went up through the handler: the request failed.
Failed(c, req, sid) ==
    [NoRet EXCEPT !.kind = "error", !.op = req.op, !.given = req.given,
                  !.context = req.context, !.caller = c, !.session_id = sid]

Pending(c, req, sid) ==
    [NoRet EXCEPT !.kind = "pending", !.op = req.op, !.given = req.given,
                  !.context = req.context, !.caller = c, !.session_id = sid]

Response(entry, op, sid, status, success) ==
    [entry |-> entry, op |-> op, sid |-> sid, status |-> status,
     success |-> success, listing |-> {}]

\* ------------------------------------------------------------ callers
\* wait_for_instruction up to its await (lines 45-57), on the store as the
\* handler finds it: S, E the two dicts, V the event flags.  With the flag
\* already up the wait is over at once; the caller is then taken to be woken
\* (Python 3.11 and earlier schedule event.wait() as a task of its own).
StartWait(c, req, sid, S, E, V, mine) ==
    IF sid \notin DOMAIN S \/ sid \notin DOMAIN E
    THEN /\ pc' = [pc EXCEPT ![c] = "idle"]
         /\ call' = [call EXCEPT ![c] = NoCall]
         /\ ret' = Return(c, req, sid, None, TRUE, "absent")
         /\ seen' = NotedCaller(c, sid, {})
         /\ crossed' = [crossed EXCEPT ![c] = None]
    ELSE /\ pc' = [pc EXCEPT ![c] = IF WaitOver(V, E[sid]) THEN "woken"
                                     ELSE "blocked"]
         /\ call' = [call EXCEPT ![c] = [sid |-> sid, ev |-> E[sid],
                                          slept |-> ~WaitOver(V, E[sid]),
                                          shared |-> FALSE, iter |-> NoIter]]
         /\ ret' = Pending(c, req, sid)
         /\ seen' = NotedCaller(c, sid, mine)
         /\ crossed' = [crossed EXCEPT ![c] = IF @ = sid THEN sid ELSE None]

\* The handler after its store update: it publishes, and either suspends in
\* the broadcast (a socket to send to) or runs on into wait_for_instruction.
PublishThenWait(c, req, sid, type, hadSinks, mine) ==
    IF hadSinks
    THEN \E at \in Sockets :
            LET iter == Iteration(Event(type, sid), at)
            IN /\ at \in iter.snap /\ Open(at)
               /\ Publish(<<Event(type, sid)>>)
               /\ active_websockets' = IF iter.loop = 2
                                       THEN AfterLoop(active_websockets, sid)
                                       ELSE active_websockets
               /\ pc' = [pc EXCEPT ![c] = "publishing"]
               /\ call' = [call EXCEPT ![c] = [sid |-> sid, ev |-> 0,
                                                slept |-> FALSE, shared |-> FALSE,
                                                iter |-> iter]]
               /\ ret' = Pending(c, req, sid)
               /\ seen' = NotedCaller(c, sid, mine)
               /\ crossed' = [crossed EXCEPT ![c] = IF @ = sid THEN sid ELSE None]
    ELSE /\ Broadcast(Event(type, sid))
         /\ StartWait(c, req, sid, sessions', instruction_events', event_value', mine)

\* _enter_headlock, server.py:107-122 (create_session: session_manager.py:18-26)
EnterHeadlock(c, session_id, context) ==
    /\ pc[c] = "idle"
    /\ session_id = None => Uuids \ generated # {}
    /\ LET found == session_id # None /\ session_id \in DOMAIN sessions
           sid == IF session_id = None
                  THEN CHOOSE u \in Uuids \ generated : TRUE
                  ELSE session_id
       IN /\ IF found
             THEN /\ sessions' = [sessions EXCEPT
                                    ![sid] = update_context(@, OrEmpty(context))]
                  /\ UNCHANGED <<instruction_events, event_value>>
             ELSE /\ sessions' = Put(sessions, sid, HeadlockSession(context))
                  /\ instruction_events' = Put(instruction_events, sid, FreshEvent)
                  /\ event_value' = [event_value EXCEPT ![FreshEvent] = FALSE]
          /\ generated' = IF session_id = None THEN generated \cup {sid} ELSE generated
          /\ created' = created \cup {sid}
          /\ PublishThenWait(c, Request("begin", session_id, context), sid,
                             "session_waiting", HasSinks(sid), SeenAtStart(c, sid))
    /\ response' = NoResponse
    /\ UNCHANGED ws_handler

\* _continue_headlock, server.py:132-145
ContinueHeadlock(c, session_id, context) ==
    /\ pc[c] = "idle"
    /\ UNCHANGED <<instruction_events, event_value, ws_handler, generated,
                   created>>
    /\ IF ~SessionFound(session_id)
       THEN /\ ret' = NotFound(c, Request("continue", session_id, context),
                                 session_id)
            /\ Publish(<<>>)
            /\ seen' = [seen EXCEPT ![c] = {}]
            /\ crossed' = [crossed EXCEPT ![c] = None]
            /\ UNCHANGED <<sessions, pc, call, active_websockets>>
       ELSE /\ sessions' = [i \in DOMAIN sessions |->
                              IF i = session_id
                              THEN update_context(sessions[i], OrEmpty(context))
                              ELSE sessions[i]]
            /\ PublishThenWait(c, Request("continue", session_id, context),
                               session_id, "task_completed", HasSinks(session_id),
                               SeenAtContinue(c, session_id))
    /\ response' = NoResponse

\* The suspended push is over and the broadcast runs on (server.py:58-73).
\* The for statement asks the set iterator for the next socket, and the
\* iterator raises RuntimeError("Set changed size during iteration") when
\* the set has another size than when the loop started: nothing in
\* broadcast_to_terminals or in the handler catches it.  Otherwise the
\* iterator may still come across sockets that joined meanwhile (extra); the
\* loop ends, the dead connections are pruned, the loop over "global" runs if
\* it has not yet, and the handler reaches wait_for_instruction (server.py:122
\* and :145, session_manager.py:45-57).
WaitForInstruction(c) ==
    /\ pc[c] = "publishing"
    /\ LET iter == call[c].iter
           group == active_websockets[iter.key]
       IN IF Cardinality(group) # Cardinality(iter.snap)
          THEN /\ pc' = [pc EXCEPT ![c] = "idle"]
               /\ call' = [call EXCEPT ![c] = NoCall]
               /\ ret' = Failed(c, Stage("wait"), call[c].sid)
               /\ seen' = NotedCaller(c, call[c].sid, {})
               /\ crossed' = [crossed EXCEPT ![c] = None]
               /\ Publish(<<>>)
               /\ UNCHANGED active_websockets
          ELSE \E extra \in SUBSET (group \ iter.snap) :
                  LET failed == iter.dead \cup DeadConnections({iter.at} \cup extra)
                      A1 == [active_websockets EXCEPT
                               ![iter.key] = Prune(@, failed)]
                  IN /\ active_websockets' = IF iter.loop = 1
                                             THEN AfterLoop(A1, GlobalKey)
                                             ELSE A1
                     /\ published' = <<>>
                     /\ sent' = [w \in Sockets |->
                                   (IF w \in extra /\ Open(w)
                                    THEN <<iter.message>> ELSE <<>>)
                                   \o (IF /\ iter.loop = 1
                                          /\ w \in A1[GlobalKey] /\ Open(w)
                                       THEN <<iter.message>> ELSE <<>>)]
                     /\ StartWait(c, Stage("wait"), call[c].sid, sessions,
                                  instruction_events, event_value, seen[c])
    /\ response' = NoResponse
    /\ UNCHANGED <<sessions, instruction_events, event_value, ws_handler,
                   generated, created>>

\* (variant) a wait without a bound: "await event.wait()", line 57
TimerNever(c) == FALSE

\* asyncio.wait_for(event.wait(), timeout=timeout), lines 54-55: the timer
\* runs while the caller is in its wait.
TimerFires(c) == pc[c] = "blocked" \/ (pc[c] = "woken" /\ call[c].slept)

\* asyncio.TimeoutError, session_manager.py:58-59: the wait of 3600 s
\* (server.py:122, :145) ran out.  The timer can fire while the caller sleeps,
\* and also after set() resolved its future but before the loop ran it again:
\* the cancellation then reaches the waiter first (asyncio.timeout of
\* Python 3.12) and the stored delivery stays behind with the flag up.
Timeout(c) ==
    /\ TimerFires(c)
    /\ pc' = [pc EXCEPT ![c] = "idle"]
    /\ call' = [call EXCEPT ![c] = NoCall]
    /\ ret' = Return(c, Stage("timeout"), call[c].sid, None, FALSE, "timeout")
    /\ crossed' = [crossed EXCEPT ![c] = call[c].sid]
    /\ seen' = [seen EXCEPT ![c] = IF @ \in {Removed, Tapped, TappedBefore}
                                    THEN Mixed ELSE @]
    /\ sessions' = [i \in DOMAIN sessions |->
                       IF i = call[c].sid THEN AfterTimeout(sessions[i])
                       ELSE sessions[i]]
    /\ event_value' = Collect(event_value, instruction_events, call')
    /\ Publish(<<>>)
    /\ response' = NoResponse
    /\ UNCHANGED <<instruction_events, active_websockets, ws_handler,
                   generated, created>>

\* The woken caller runs again: session_manager.py:61-77.
Resume(c) ==
    /\ pc[c] = "woken"
    /\ LET sid == call[c].sid
           e == call[c].ev
       IN /\ IF sid \notin DOMAIN sessions
             THEN /\ ret' = Return(c, Stage("resume"), sid, None, TRUE, "absent")
                  /\ sessions' = sessions
                  /\ call' = Served(c)
                  /\ event_value' = Collect(event_value, instruction_events, call')
             ELSE /\ ret' = Return(c, Stage("resume"), sid,
                                   WakeInstruction(sessions[sid]),
                                   WakeShouldTerminate(sessions[sid]), "wake")
                  /\ sessions' = WakeStore(sessions, sid)
                  /\ call' = Served(c)
                  /\ event_value' = Collect([event_value EXCEPT ![e] = FALSE],
                                            instruction_events, call')
          /\ seen' = NotedCaller(c, sid, {})
    /\ pc' = [pc EXCEPT ![c] = "idle"]
    /\ crossed' = [crossed EXCEPT ![c] = None]
    /\ Publish(<<>>)
    /\ response' = NoResponse
    /\ UNCHANGED <<instruction_events, active_websockets, ws_handler,
                   generated, created>>

\* ------------------------------------------------------------ operators
\* SessionManager.send_instruction, lines 85-92, on a stored session: the
\* value is written and the event set, which resolves the waiters' futures.
Deliver(sid, instruction) ==
    /\ sessions' = [sessions EXCEPT ![sid] = send_instruction(@, instruction)]
    /\ event_value' = [event_value EXCEPT ![instruction_events[sid]] = TRUE]
    /\ pc' = [c \in Callers |->
                IF c \in SetWakes(instruction_events[sid]) THEN "woken" ELSE pc[c]]
    /\ seen' = Noted(sid, instruction)
    /\ UNCHANGED <<instruction_events, call, crossed>>

\* SessionManager.tap_out, lines 100-107, on a stored session
Terminate(sid) ==
    /\ sessions' = [sessions EXCEPT ![sid] = tap_out(@)]
    /\ event_value' = [event_value EXCEPT ![instruction_events[sid]] = TRUE]
    /\ pc' = [c \in Callers |->
                IF c \in SetWakes(instruction_events[sid]) THEN "woken" ELSE pc[c]]
    /\ seen' = Noted(sid, "tap_out")
    /\ UNCHANGED <<instruction_events, call, crossed>>

\* SessionManager.remove_session, lines 133-137, on a stored session: the
\* callers that wait on the deleted event object are those remove wakes.
RemoveWakes(sid) == {}

Remove(sid) ==
    /\ sessions' = Del(sessions, sid)
    /\ instruction_events' = Del(instruction_events, sid)
    /\ event_value' = Collect(event_value, instruction_events', call)
    /\ pc' = [c \in Callers |-> IF c \in RemoveWakes(sid) THEN "woken" ELSE pc[c]]
    /\ seen' = Noted(sid, "delete")
    /\ UNCHANGED <<call, crossed>>

Untouched == UNCHANGED <<sessions, instruction_events, event_value, pc, call,
                         seen, crossed>>

\* POST /sessions/{session_id}/instruct, server.py:244-267
HttpInstruct(sid, instruction) ==
    /\ IF sid \notin DOMAIN sessions
       THEN /\ response' = Response("http", "instruct", sid, "not_found", FALSE)
            /\ Publish(<<>>)
            /\ Untouched
            /\ UNCHANGED active_websockets
       ELSE IF ~HttpInstructAllowed(sessions[sid])
       THEN /\ response' = Response("http", "instruct", sid, "invalid_state", FALSE)
            /\ Publish(<<>>)
            /\ Untouched
            /\ UNCHANGED active_websockets
       ELSE /\ Deliver(sid, instruction)
            /\ response' = Response("http", "instruct", sid, "ok", TRUE)
            /\ Broadcast(Event("instruction_sent", sid))
    /\ ret' = NoRet
    /\ UNCHANGED <<ws_handler, generated, created>>

\* POST /sessions/{session_id}/tap-out, server.py:270-287
HttpTapOut(sid) ==
    /\ IF sid \notin DOMAIN sessions
       THEN /\ response' = Response("http", "tap_out", sid, "not_found", FALSE)
            /\ Publish(<<>>)
            /\ Untouched
            /\ UNCHANGED active_websockets
       ELSE /\ Terminate(sid)
            /\ response' = Response("http", "tap_out", sid, "ok", TRUE)
            /\ Broadcast(Event("session_terminated", sid))
    /\ ret' = NoRet
    /\ UNCHANGED <<ws_handler, generated, created>>

\* DELETE /sessions/{session_id}, server.py:290-296
HttpDelete(sid) ==
    /\ IF sid \notin DOMAIN sessions
       THEN /\ response' = Response("http", "delete", sid, "not_found", FALSE)
            /\ Untouched
       ELSE /\ Remove(sid)
            /\ response' = Response("http", "delete", sid, "ok", TRUE)
    /\ Publish(<<>>)
    /\ ret' = NoRet
    /\ UNCHANGED <<active_websockets, ws_handler, generated, created>>

\* ------------------------------------------------------ push connections
\* A name stands for one WebSocket object: a new connection is an object that
\* no running broadcast still holds.
Unreferenced(w) == \A c \in Callers : w \notin call[c].iter.snap

\* websocket_global up to its receive loop, server.py:304-330
WsConnectGlobal(w) ==
    /\ ws_handler[w] = NoHandler /\ Unreferenced(w)
    /\ ws_handler' = [ws_handler EXCEPT
                        ![w] = [endpoint |-> "ws_global", key |-> GlobalKey,
                                open |-> TRUE]]
    /\ active_websockets' = [active_websockets EXCEPT ![GlobalKey] = @ \cup {w}]
    /\ ret' = NoRet /\ response' = NoResponse /\ published' = <<>>
    /\ sent' = [NoneSent EXCEPT ![w] = <<Event("initial_state", None)>>]
    /\ UNCHANGED <<generated, created>>
    /\ Untouched

\* websocket_session up to its receive loop, server.py:352-375
WsConnectSession(w, key) ==
    /\ ws_handler[w] = NoHandler /\ Unreferenced(w)
    /\ ws_handler' = [ws_handler EXCEPT
                        ![w] = [endpoint |-> "ws_session", key |-> key,
                                open |-> TRUE]]
    /\ active_websockets' = [active_websockets EXCEPT ![key] = @ \cup {w}]
    /\ ret' = NoRet /\ response' = NoResponse /\ published' = <<>>
    /\ sent' = [NoneSent EXCEPT ![w] = IF key \in DOMAIN sessions
                                       THEN <<Event("session_state", key)>>
                                       ELSE <<>>]
    /\ UNCHANGED <<generated, created>>
    /\ Untouched

\* WebSocketDisconnect in either loop, server.py:346-349 and :387-390
WsDisconnect(w) ==
    /\ ws_handler[w] # NoHandler
    /\ ws_handler' = [ws_handler EXCEPT ![w] = NoHandler]
    /\ active_websockets' = [active_websockets EXCEPT ![ws_handler[w].key] = @ \ {w}]
    /\ ret' = NoRet /\ response' = NoResponse /\ Publish(<<>>)
    /\ UNCHANGED <<generated, created>>
    /\ Untouched

\* The peer of a push connection goes away: from now on a push to the socket
\* raises (server.py:59-62), and its receive loop is told later (WsDisconnect).
WsBreak(w) ==
    /\ Open(w)
    /\ ws_handler' = [ws_handler EXCEPT ![w].open = FALSE]
    /\ ret' = NoRet /\ response' = NoResponse /\ Publish(<<>>)
    /\ UNCHANGED <<active_websockets, generated, created>>
    /\ Untouched

\* An "instruct" message in a receive loop: server.py:335-339 (the global
\* loop takes the id from the message) and :379-382 (the session loop uses
\* the id of its path).  The bool send_instruction returns is dropped and
\* nothing is sent back.
WsInstruct(w, sid, instruction) ==
    /\ Open(w)
    /\ ws_handler[w].endpoint = "ws_session" => sid = ws_handler[w].key
    /\ IF sid \notin DOMAIN sessions
       THEN /\ response' = Response(ws_handler[w].endpoint, "instruct", sid, "none", FALSE)
            /\ Untouched
       ELSE /\ Deliver(sid, instruction)
            /\ response' = Response(ws_handler[w].endpoint, "instruct", sid, "none", TRUE)
    /\ Publish(<<>>)
    /\ ret' = NoRet
    /\ UNCHANGED <<active_websockets, ws_handler, generated, created>>

\* A "tap_out" message in a receive loop: server.py:341-344 and :384-385
WsTapOut(w, sid) ==
    /\ Open(w)
    /\ ws_handler[w].endpoint = "ws_session" => sid = ws_handler[w].key
    /\ IF sid \notin DOMAIN sessions
       THEN /\ response' = Response(ws_handler[w].endpoint, "tap_out", sid, "none", FALSE)
            /\ Untouched
       ELSE /\ Terminate(sid)
            /\ response' = Response(ws_handler[w].endpoint, "tap_out", sid, "none", TRUE)
    /\ Publish(<<>>)
    /\ ret' = NoRet
    /\ UNCHANGED <<active_websockets, ws_handler, generated, created>>

\* SessionManager.complete_session, session_manager.py:121-129.  No handler
\* of the server calls it: it is there for a collaborator that holds the
\* session manager.
CompleteSession(sid) ==
    /\ sid \in DOMAIN sessions
    /\ sessions' = [sessions EXCEPT ![sid] = complete_session(@)]
    /\ seen' = Noted(sid, "other")
    /\ ret' = NoRet /\ response' = NoResponse /\ Publish(<<>>)
    /\ UNCHANGED <<instruction_events, event_value, active_websockets,
                   ws_handler, pc, call, generated, created, crossed>>

\* GET /sessions, server.py:193-207
ListSessions ==
    /\ response' = [Response("http", "list", None, "ok", TRUE)
                      EXCEPT !.listing = get_all_sessions(sessions)]
    /\ ret' = NoRet /\ Publish(<<>>)
    /\ UNCHANGED <<active_websockets, ws_handler, generated, created>>
    /\ Untouched

\* GET /sessions/waiting, server.py:210-224
ListWaitingSessions ==
    /\ response' = [Response("http", "list_waiting", None, "ok", TRUE)
                      EXCEPT !.listing = get_waiting_sessions(sessions)]
    /\ ret' = NoRet /\ Publish(<<>>)
    /\ UNCHANGED <<active_websockets, ws_handler, generated, created>>
    /\ Untouched

\* ---------------------------------------------------------- the program
\* SessionManager.__init__ (session_manager.py:12-16) and server.py:44
Init ==
    /\ sessions = <<>>
    /\ instruction_events = <<>>
    /\ event_value = [e \in EventIds |-> FALSE]
    /\ active_websockets = [k \in Keys |-> {}]
    /\ ws_handler = [w \in Sockets |-> NoHandler]
    /\ pc = [c \in Callers |-> "idle"]
    /\ call = [c \in Callers |-> NoCall]
    /\ generated = {}
    /\ created = {}
    /\ seen = [c \in Callers |-> {}]
    /\ crossed = [c \in Callers |-> None]
    /\ ret = NoRet
    /\ response = NoResponse
    /\ published = <<>>
    /\ sent = NoneSent

\* The steps of the handlers, for the callers C, the session ids I a client
\* may name (uuids it was given are always allowed), whether begin may leave
\* the id out (G), the instruction values V, the contexts X and sockets W.
Steps(C, I, G, V, X, W) ==
    \/ \E c \in C, context \in X :
         \E session_id \in G \cup I \cup generated :
            EnterHeadlock(c, session_id, context)
    \/ \E c \in C, context \in X :
         \E session_id \in I \cup generated :
            ContinueHeadlock(c, session_id, context)
    \/ \E c \in C : WaitForInstruction(c)
    \/ \E c \in C : Timeout(c)
    \/ \E c \in C : Resume(c)
    \/ \E sid \in I \cup generated, instruction \in V : HttpInstruct(sid, instruction)
    \/ \E sid \in I \cup generated : HttpTapOut(sid)
    \/ \E sid \in I \cup generated : HttpDelete(sid)
    \/ \E w \in W : WsConnectGlobal(w)
    \/ \E w \in W, key \in I \cup generated : WsConnectSession(w, key)
    \/ \E w \in W : WsDisconnect(w)
    \/ \E w \in W, sid \in I \cup generated, instruction \in V :
         WsInstruct(w, sid, instruction)
    \/ \E w \in W, sid \in I \cup generated : WsTapOut(w, sid)

\* The rendezvous on one conversation, two callers racing on it.
Next == Steps(Callers, {"x"}, {}, Values, {None}, OneSocket)

Spec == Init /\ [][Next]_vars

\* The store with two conversations: one caller, a made-up id and a
\* generated one, and a collaborator that may mark a session completed.
NextStore ==
    \/ Steps({"c1"}, {"x"}, {None}, {"a"}, {None}, OneSocket)
    \/ \E sid \in Ids : CompleteSession(sid)
    \/ ListSessions
    \/ ListWaitingSessions

SpecStore == Init /\ [][NextStore]_vars

\* The observer bus: one caller, and clients that may name a conversation,
\* or the key of a push connection, "global".
NextSinks == Steps({"c1"}, {"x", GlobalKey}, {}, {"a"}, {None}, OneSocket)

SpecSinks == Init /\ [][NextSinks]_vars

\* The observer bus under failures: one caller on one conversation and two
\* push connections that come, break and go.
NextBus ==
    \/ Steps({"c1"}, {"x"}, {}, {"a"}, {None}, Sockets)
    \/ \E w \in Sockets : WsBreak(w)

SpecBus == Init /\ [][NextBus]_vars

\* The arguments of begin and continue: one caller that begins with and
\* without an id and with and without context, on conversations in every
\* state.
NextArgs ==
    \/ Steps({"c1"}, {}, {None}, {"a"}, Contexts, OneSocket)
    \/ \E sid \in Ids : CompleteSession(sid)

SpecArgs == Init /\ [][NextArgs]_vars

\* Two conversations side by side, each with a caller of its own (caller 1
\* on the made-up id, caller 2 on the generated one), the HTTP operator on
\* both, and one push connection that listens.
NextPair ==
    \/ EnterHeadlock("c1", "x", None)
    \/ \E session_id \in {None} \cup generated :
          EnterHeadlock("c2", session_id, None)
    \/ ContinueHeadlock("c1", "x", None)
    \/ \E session_id \in generated : ContinueHeadlock("c2", session_id, None)
    \/ \E c \in Callers : WaitForInstruction(c)
    \/ \E c \in Callers : Timeout(c)
    \/ \E c \in Callers : Resume(c)
    \/ \E sid \in {"x"} \cup generated : HttpInstruct(sid, "a")
    \/ \E sid \in {"x"} \cup generated : HttpTapOut(sid)
    \/ \E sid \in {"x"} \cup generated : HttpDelete(sid)
    \/ \E w \in OneSocket : WsConnectGlobal(w)
    \/ \E w \in OneSocket : WsDisconnect(w)

SpecPair == Init /\ [][NextPair]_vars

\* One caller on one conversation under the guarantees of the event loop:
\* the timer of a wait fires when its time is up, and a handler that can run
\* is run.
NextFair == Steps({"c1"}, {"x"}, {}, {"a"}, {None}, OneSocket)

SpecFair ==
    /\ Init /\ [][NextFair]_vars
    /\ \A c \in {"c1"} : /\ WF_vars(Timeout(c))
                         /\ WF_vars(Resume(c))
                         /\ WF_vars(WaitForInstruction(c))

\* ================================================================ claims
Returned == ret.kind = "return"
Woken == Returned /\ ret.by = "wake"
Store == <<sessions, instruction_events, event_value>>
OperatorOps == {"instruct", "tap_out", "delete"}

\* C1: a caller that blocked on a WAITING conversation alone, and for whose
\* conversation one instruction value v was accepted while it was in its
\* block, with no terminate, remove or other caller on the conversation
\* before it ran again, returns (that conversation, v, should_terminate =
\* false).
C1_DeliveredInstructionReturned ==
    (Woken /\ ret.slept /\ ~ret.crossed /\ ret.seen \in {{v} : v \in Values})
        => /\ ret.instruction \in ret.seen
           /\ ret.should_terminate = FALSE

C1_Witness ==
    /\ Woken /\ ret.slept /\ ~ret.crossed /\ ret.seen = {"a"}
    /\ ret.instruction = "a" /\ ~ret.should_terminate /\ ret.session_id = "x"

\* C2 (as claimed): every begin or continue that returns should_terminate =
\* true returns instruction = null, also when an instruction was pending
\* when terminate ran.
C2_TerminatedReturnsNoInstruction ==
    (Returned /\ ret.should_terminate) => ret.instruction = None

\* C3 (as claimed): a caller in its block when terminate succeeded on its
\* conversation does not stay blocked, and when it returns its result has
\* should_terminate = true, whatever interleaves before it runs again.
C3_TerminateSeenByBlockedCaller ==
    /\ \A c \in Callers : seen[c] = Tapped => pc[c] # "blocked"
    /\ (Returned /\ ret.seen = Tapped) => ret.should_terminate

\* C4 (as claimed): a caller in its block when remove succeeded on its
\* conversation is woken by the removal, and returns should_terminate = true.
C4_RemoveWakesBlockedCaller ==
    /\ \A c \in Callers : seen[c] = Removed => pc[c] # "blocked"
    /\ (Returned /\ ret.seen = Removed) => ret.should_terminate

\* C5: the HTTP deliver on a stored conversation whose state is not WAITING
\* is rejected with an error, leaves the conversation (state, pending
\* instruction) and every wake signal as they were, wakes nobody and
\* publishes no event.
C5_HttpDeliverRejectedOutsideWaiting ==
    [][(/\ response'.entry = "http" /\ response'.op = "instruct"
        /\ response'.sid \in DOMAIN sessions
        /\ sessions[response'.sid].state # WAITING)
          => /\ response'.status = "invalid_state"
             /\ ~response'.success
             /\ UNCHANGED <<Store, pc>>
             /\ published' = <<>>]_vars

C5_Witness ==
    /\ response.entry = "http" /\ response.op = "instruct"
    /\ response.status = "invalid_state"
    /\ response.sid \in DOMAIN sessions
    /\ sessions[response.sid].state = PROCESSING

\* C6 (as claimed): over every delivery entry point, a delivery to a stored
\* conversation whose state is not WAITING writes no pending instruction
\* and sets no wake signal.
C6_NoDeliveryOutsideWaiting ==
    [][(/\ response'.op = "instruct"
        /\ response'.sid \in DOMAIN sessions
        /\ sessions[response'.sid].state # WAITING)
          => UNCHANGED Store]_vars

\* C7 (as claimed): for an id that was never created, deliver, terminate and
\* remove report NotFound to their caller, over every entry point, and
\* leave the store as it was.
C7_NeverCreatedIsNotFound ==
    [][(response'.op \in OperatorOps /\ response'.sid \notin created)
          => /\ response'.status = "not_found"
             /\ UNCHANGED <<Store, created>>]_vars

\* C8: continue on an id that is not in the store fails with NotFound
\* without blocking, creates no conversation, publishes no event and leaves
\* the store unchanged.
C8_ContinueUnknownIsNotFound ==
    [][(ret'.op = "continue" /\ ret'.session_id \notin DOMAIN sessions)
          => /\ ret'.kind = "not_found"
             /\ UNCHANGED <<Store, pc, call, created>>
             /\ published' = <<>>]_vars

C8_Witness ==
    /\ ret.op = "continue" /\ ret.kind = "not_found"
    /\ ret.session_id \notin DOMAIN sessions
    /\ DOMAIN sessions # {}

\* C9: when both values a and b were accepted for the conversation of a
\* caller that blocked on it alone, and no terminate or remove occurred, the
\* caller's return carries one of a and b and should_terminate = false.
C9_OneOfTwoDeliveries ==
    (Woken /\ ret.slept /\ ret.seen = Values)
        => ret.instruction \in Values /\ ~ret.should_terminate

C9_Witness ==
    /\ Woken /\ ret.slept /\ ret.seen = Values
    /\ ret.instruction = "b" /\ ~ret.should_terminate

\* C10: after a block of the caller on the conversation ended by timeout, an
\* instruction v accepted later (no terminate, remove or other caller on the
\* conversation in between) is what the caller's next woken block returns.
C10_NoDeliveryLostAcrossTimeout ==
    (Woken /\ ret.crossed /\ ret.seen \in {{v} : v \in Values})
        => ret.instruction \in ret.seen /\ ~ret.should_terminate

C10_Witness ==
    /\ Woken /\ ret.crossed /\ ~ret.slept /\ ret.seen = {"a"}
    /\ ret.instruction = "a" /\ ~ret.should_terminate

\* C11: a block that ends by timeout returns (null, should_terminate =
\* false) and leaves the conversation's record (state, context, pending
\* instruction) and the flag of its wake signal exactly as they were, also
\* when a delivery was stored just before the timer fired.
C11_TimeoutChangesNothing ==
    [][ret'.by = "timeout"
          => /\ ret'.instruction = None /\ ~ret'.should_terminate
             /\ UNCHANGED <<sessions, instruction_events>>
             /\ \A sid \in DOMAIN instruction_events :
                   event_value'[instruction_events[sid]]
                       = event_value[instruction_events[sid]]]_vars

C11_Witness ==
    /\ ret.by = "timeout" /\ ret.seen = {"a"} /\ ret.session_id = "x"
    /\ "x" \in DOMAIN sessions
    /\ sessions["x"].pending_instruction = "a"
    /\ sessions["x"].state = WAITING
    /\ event_value[instruction_events["x"]]

\* C12: signal-before-wait.  A caller for whose conversation deliveries, and
\* nothing else, were accepted since its request started (so also between
\* the publication of the waiting event and its wait) does not sleep on the
\* wake signal; when one value v was accepted before it reached its wait, it
\* returns v and should_terminate = false without having slept.
C12_SignalBeforeWait ==
    /\ \A c \in Callers :
          pc[c] = "blocked" => seen[c] \notin (SUBSET Values \ {{}})
    /\ (Woken /\ ~ret.slept /\ ~ret.crossed /\ ret.seen \in {{v} : v \in Values})
          => ret.instruction \in ret.seen /\ ~ret.should_terminate

C12_Witness ==
    /\ Woken /\ ~ret.slept /\ ~ret.crossed /\ ret.seen = {"b"}
    /\ ret.instruction = "b" /\ ~ret.should_terminate

\* C13 (as claimed): in every reachable state each stored conversation has
\* at most one caller asleep on its wake signal.
C13_AtMostOneBlocked ==
    \A sid \in DOMAIN instruction_events :
        Cardinality(Waiters(instruction_events[sid])) <= 1

\* C14 (as claimed): no caller returns from its block through a signal that
\* another caller, blocked on the same conversation when the signal was
\* given, has already returned from.
C14_OneSignalOneReturn ==
    (Returned /\ ret.op = "resume") => ~ret.shared

\* C15 (as claimed): a stored conversation whose state is TERMINATED is
\* still TERMINATED after every step that does not remove it.
C15_TerminatedIsFinal ==
    [][\A sid \in DOMAIN sessions \cap DOMAIN sessions' :
          sessions[sid].state = TERMINATED
              => sessions'[sid].state = TERMINATED]_vars

\* C16 (as claimed): a continue that starts on a conversation terminated
\* while no caller was blocked on it, with nothing else happening to the
\* conversation until the call returns, returns should_terminate = true.
C16_TerminateBeforeContinueSeen ==
    (Returned /\ ret.seen = TappedBefore) => ret.should_terminate

\* C17: a conversation record and its wake signal leave the store only in
\* a step that is an accepted remove of that conversation, and a stored
\* conversation keeps its wake signal object: no timeout, terminate, wake,
\* state change or failed operation deletes or replaces either.
C17_OnlyRemoveDeletes ==
    [][/\ DOMAIN sessions' = DOMAIN instruction_events'
       /\ \A sid \in DOMAIN sessions :
             \/ /\ sid \in DOMAIN sessions'
                /\ instruction_events'[sid] = instruction_events[sid]
             \/ /\ response'.op = "delete" /\ response'.status = "ok"
                /\ response'.sid = sid]_vars

C17_Witness ==
    /\ ret.by = "timeout" /\ ret.session_id \in DOMAIN sessions
    /\ ret.session_id \in DOMAIN instruction_events
    /\ sessions[ret.session_id].state = TERMINATED

\* C18 (as claimed): while an id that was created is out of the store,
\* every continue, deliver, terminate and remove on it is answered NotFound,
\* over every entry point, and a caller whose block on it starts or resumes
\* then returns (null, should_terminate = true).
C18_RemovedIsTombstone ==
    [][/\ (response'.op \in OperatorOps
            /\ response'.sid \in created \ DOMAIN sessions)
          => response'.status = "not_found"
       /\ (ret'.op = "continue" /\ ret'.session_id \in created \ DOMAIN sessions)
          => ret'.kind = "not_found"
       /\ (ret'.kind = "return" /\ ret'.op \in {"wait", "resume"}
            /\ ret'.session_id \in created \ DOMAIN sessions)
          => ret'.instruction = None /\ ret'.should_terminate]_vars

\* The number of times message m occurs in the sequence q.
Count(q, m) == Cardinality({i \in DOMAIN q : q[i] = m})

\* C19 (as claimed): a socket registered under the global key by /ws is
\* pushed every event published in a step exactly once.
C19_GlobalSinkOncePerEvent ==
    \A w \in Sockets :
        ws_handler[w].endpoint = "ws_global"
            => \A i \in DOMAIN published : Count(sent[w], published[i]) = 1

\* C20 (as claimed): a socket registered by /ws/{K} is pushed only messages
\* whose session id is K, whatever K is.
C20_SessionSinkOnlyOwnEvents ==
    \A w \in Sockets :
        ws_handler[w].endpoint = "ws_session"
            => \A i \in DOMAIN sent[w] :
                  sent[w][i].session_id = ws_handler[w].key

\* C23: list_waiting returns exactly the stored conversations whose state
\* is WAITING, and list returns every stored conversation, ended ones
\* included, each shown with its own state.
C23_ListingsMatchStore ==
    /\ response.op = "list_waiting"
          => /\ {r.session_id : r \in response.listing}
                   = {i \in DOMAIN sessions : sessions[i].state = WAITING}
             /\ \A r \in response.listing : r.state = WAITING
    /\ response.op = "list"
          => /\ {r.session_id : r \in response.listing} = DOMAIN sessions
             /\ \A r \in response.listing :
                   r.state = sessions[r.session_id].state

C23_Witness ==
    /\ response.op = "list_waiting"
    /\ Cardinality(response.listing) = 1
    /\ \E i \in DOMAIN sessions : sessions[i].state = PROCESSING
    /\ Cardinality(DOMAIN sessions) = 2

\* C24: an instruction is consumed at most once.  A call that returns an
\* instruction v takes it out of the slot of its conversation (the slot held
\* v before the return and is empty after it), and a slot gets a value only
\* by an accepted deliver on that conversation: so no accepted deliver is
\* returned by two calls, over every interleaving.
C24_ConsumedAtMostOnce ==
    [][/\ (ret'.kind = "return" /\ ret'.instruction # None)
          => /\ ret'.session_id \in DOMAIN sessions \cap DOMAIN sessions'
             /\ sessions[ret'.session_id].pending_instruction = ret'.instruction
             /\ sessions'[ret'.session_id].pending_instruction = None
       /\ \A sid \in DOMAIN sessions' :
             (/\ sessions'[sid].pending_instruction # None
              /\ \/ sid \notin DOMAIN sessions
                 \/ sessions[sid].pending_instruction
                        # sessions'[sid].pending_instruction)
                => /\ response'.op = "instruct" /\ response'.success
                   /\ response'.sid = sid]_vars

C24_Witness ==
    /\ Woken /\ ret.shared /\ ret.seen = Mixed
    /\ ret.instruction = None /\ ~ret.should_terminate
    /\ sessions[ret.session_id].pending_instruction = None

\* C25: an accepted deliver, over every entry point, changes only the
\* pending instruction of its conversation and sets its wake signal: state,
\* context and every other conversation and signal are as before; and a
\* conversation's state becomes PROCESSING only in the step in which a woken
\* caller returns on it.
C25_DeliverLeavesState ==
    [][/\ (response'.op = "instruct" /\ response'.success)
          => /\ response'.sid \in DOMAIN sessions
             /\ \E v \in Values :
                   sessions' = [sessions EXCEPT
                                  ![response'.sid].pending_instruction = v]
             /\ instruction_events' = instruction_events
             /\ event_value' = [event_value EXCEPT
                                  ![instruction_events[response'.sid]] = TRUE]
       /\ \A sid \in DOMAIN sessions \cap DOMAIN sessions' :
             (sessions[sid].state # PROCESSING
              /\ sessions'[sid].state = PROCESSING)
                => ret'.by = "wake" /\ ret'.session_id = sid]_vars

C25_Witness ==
    /\ response.op = "instruct" /\ response.success
    /\ sessions[response.sid].state = WAITING
    /\ sessions[response.sid].pending_instruction = "a"
    /\ event_value[instruction_events[response.sid]]
    /\ \E c \in Callers : pc[c] = "woken" /\ call[c].slept

\* C26: terminate on a stored conversation succeeds whatever its state,
\* over every entry point; it leaves the state TERMINATED and the wake
\* signal set, and context, pending instruction, the other conversations and
\* the signal objects are as before.
C26_TerminateFromEveryState ==
    [][(response'.op = "tap_out" /\ response'.sid \in DOMAIN sessions)
          => /\ response'.success
             /\ response'.entry = "http" => response'.status = "ok"
             /\ sessions' = [sessions EXCEPT ![response'.sid].state = TERMINATED]
             /\ instruction_events' = instruction_events
             /\ event_value'[instruction_events[response'.sid]]]_vars

C26_Witness ==
    /\ response.op = "tap_out" /\ response.success
    /\ sessions[response.sid].state = TERMINATED
    /\ sessions[response.sid].pending_instruction = "a"
    /\ event_value[instruction_events[response.sid]]

\* C27 (as claimed): whenever a woken caller returns on an id that is in
\* the store, afterwards that conversation's pending instruction is null,
\* its wake signal is clear, and its state is TERMINATED if the call
\* returned should_terminate = true and PROCESSING otherwise.
C27_WokenReturnLeavesCleanSlot ==
    [][(ret'.kind = "return" /\ ret'.by = "wake")
          => /\ ret'.session_id \in DOMAIN sessions'
             /\ sessions'[ret'.session_id].pending_instruction = None
             /\ ~event_value'[instruction_events'[ret'.session_id]]
             /\ sessions'[ret'.session_id].state
                   = IF ret'.should_terminate THEN TERMINATED ELSE PROCESSING]_vars

\* A caller's handler enters the broadcast and one of its pushes suspends.
Suspends == \E c \in Callers : pc[c] # "publishing" /\ pc'[c] = "publishing"

\* The sockets whose push has raised in the broadcast that caller c ends.
FailedPushes(c) ==
    call[c].iter.dead \cup DeadConnections({call[c].iter.at})

\* Every open socket stays in every set it is in.
OpenSocketsStay ==
    \A w \in Sockets : \A k \in Keys :
        (Open(w) /\ w \in active_websockets[k]) => w \in active_websockets'[k]

\* C21: during one publish a socket whose push fails is out of its group by
\* the end of that publish, every other socket of the conversation's group
\* and of the global group receives the event, and the sockets that did not
\* fail stay registered.
C21_FailedSinkPruned ==
    [][/\ published' # <<>>
            => LET sid == published'[1].session_id
               IN /\ \A w \in active_websockets[sid] \cup active_websockets[GlobalKey] :
                        Open(w) => sent'[w] # <<>>
                  /\ OpenSocketsStay
                  /\ ~Suspends
                        => \A w \in Sockets : \A k \in {sid, GlobalKey} :
                              ~Open(w) => w \notin active_websockets'[k]
       /\ \A c \in Callers :
            (pc[c] = "publishing" /\ pc'[c] # "publishing")
                => /\ \A w \in FailedPushes(c) :
                         w \notin active_websockets'[call[c].iter.key]
                   /\ OpenSocketsStay]_vars

\* The same, for the publishes that run to their end.
C21_PrunedWhenPublishEnds ==
    [][/\ published' # <<>>
            => LET sid == published'[1].session_id
               IN /\ \A w \in active_websockets[sid] \cup active_websockets[GlobalKey] :
                        Open(w) => sent'[w] # <<>>
                  /\ OpenSocketsStay
                  /\ ~Suspends
                        => \A w \in Sockets : \A k \in {sid, GlobalKey} :
                              ~Open(w) => w \notin active_websockets'[k]
       /\ \A c \in Callers :
            (pc[c] = "publishing" /\ pc'[c] # "publishing" /\ ret'.kind # "error")
                => /\ \A w \in FailedPushes(c) :
                         w \notin active_websockets'[call[c].iter.key]
                   /\ OpenSocketsStay]_vars

\* C22: a publish never fails the operation that triggered it, also when a
\* socket joins or leaves a group while a publish to that group is suspended
\* in a push: begin and continue still reach their block.
C22_PublishNeverFails == ret.kind # "error"

\* A caller's handler reaches its block: wait_for_instruction comes to its
\* await, straight from the store update or after a suspended broadcast.
BlockStarts(c) ==
    pc[c] \in {"idle", "publishing"} /\ pc'[c] \in {"blocked", "woken"}

\* C28: continue(X, c) on a stored conversation, whatever its state, sets
\* the context to c (the empty text when c is absent) and the state to
\* WAITING and publishes one task_completed event for X before the caller
\* blocks; when only deliveries happened to the conversation since the
\* request started, the state is WAITING when the block starts.
C28_ContinueRearms ==
    [][/\ (ret'.op = "continue" /\ ret'.kind # "not_found")
            => LET sid == ret'.given
                   text == IF ret'.context = None THEN "" ELSE ret'.context
               IN /\ sid \in DOMAIN sessions
                  /\ ret'.session_id = sid
                  /\ sessions' = [sessions EXCEPT ![sid].agent_context = text,
                                                  ![sid].last_response = text,
                                                  ![sid].state = WAITING]
                  /\ published' = <<Event("task_completed", sid)>>
                  /\ pc[ret'.caller] = "idle"
                  /\ pc'[ret'.caller] \in {"publishing", "blocked", "woken"}
       /\ \A c \in Callers :
            (BlockStarts(c) /\ seen'[c] \in SUBSET Values)
                => sessions'[call'[c].sid].state = WAITING]_vars

C28_Witness ==
    /\ ret.op = "continue" /\ ret.kind = "pending" /\ ret.context = None
    /\ sessions[ret.session_id].agent_context = ""
    /\ sessions[ret.session_id].state = WAITING
    /\ sessions[ret.session_id].pending_instruction = "a"
    /\ published = <<Event("task_completed", ret.session_id)>>
    /\ pc[ret.caller] = "woken"

\* C29: begin without an id creates a conversation under a fresh id that is
\* not in the store, begin with an id that is not in the store creates one
\* under that id; the new conversation is WAITING, has no pending
\* instruction, a clear wake signal and the context that was given, the
\* conversations already stored are left alone, and the handler goes on with
\* the id of the new conversation.
C29_BeginCreates ==
    [][(ret'.op = "begin" /\ (ret'.given = None \/ ret'.given \notin DOMAIN sessions))
          => LET sid == ret'.session_id
             IN /\ sid \notin DOMAIN sessions
                /\ ret'.given # None => sid = ret'.given
                /\ DOMAIN sessions' = DOMAIN sessions \cup {sid}
                /\ sessions'[sid].state = WAITING
                /\ sessions'[sid].pending_instruction = None
                /\ sessions'[sid].agent_context = ret'.context
                /\ sid \in DOMAIN instruction_events'
                /\ ~event_value'[instruction_events'[sid]]
                /\ \A c \in Callers :
                      call[c].ev # 0 => call[c].ev # instruction_events'[sid]
                /\ \A i \in DOMAIN sessions :
                      /\ sessions'[i] = sessions[i]
                      /\ instruction_events'[i] = instruction_events[i]
                /\ call'[ret'.caller].sid = sid]_vars

C29_Witness ==
    /\ ret.op = "begin" /\ ret.given = None /\ ret.context = "c"
    /\ ret.session_id \in DOMAIN sessions
    /\ sessions[ret.session_id].agent_context = "c"
    /\ sessions[ret.session_id].state = WAITING
    /\ ~event_value[instruction_events[ret.session_id]]
    /\ pc[ret.caller] = "blocked"

\* C30: begin with an id that is in the store reuses the conversation: the
\* same conversations are stored afterwards, under the same wake signal
\* objects with the same flags, a pending instruction is kept, and of the
\* conversation only context, last_response and state are written; with the
\* signal set the caller does not sleep.
C30_BeginReuses ==
    [][(ret'.op = "begin" /\ ret'.given # None /\ ret'.given \in DOMAIN sessions)
          => LET sid == ret'.given
             IN /\ ret'.session_id = sid
                /\ sessions' = [sessions EXCEPT
                                  ![sid].agent_context = sessions'[sid].agent_context,
                                  ![sid].last_response = sessions'[sid].last_response,
                                  ![sid].state = sessions'[sid].state]
                /\ instruction_events' = instruction_events
                /\ event_value' = event_value
                /\ event_value[instruction_events[sid]]
                      => pc'[ret'.caller] \in {"publishing", "woken"}]_vars

C30_Witness ==
    /\ ret.op = "begin" /\ ret.given = ret.session_id /\ ret.kind = "pending"
    /\ Cardinality(created) = 1
    /\ sessions[ret.session_id].pending_instruction = "a"
    /\ event_value[instruction_events[ret.session_id]]
    /\ pc[ret.caller] = "woken"

\* C31: every accepted deliver publishes exactly one instruction_sent event
\* for its conversation and every accepted terminate exactly one
\* session_terminated event, whichever entry point carried the request.
C31_OperatorEventPerRequest ==
    [][/\ (response'.op = "instruct" /\ response'.success)
            => published' = <<Event("instruction_sent", response'.sid)>>
       /\ (response'.op = "tap_out" /\ response'.success)
            => published' = <<Event("session_terminated", response'.sid)>>]_vars

\* The same, for the requests that come in over HTTP.
C31_HttpEventPerRequest ==
    [][/\ (response'.entry = "http" /\ response'.op = "instruct" /\ response'.success)
            => published' = <<Event("instruction_sent", response'.sid)>>
       /\ (response'.entry = "http" /\ response'.op = "tap_out" /\ response'.success)
            => published' = <<Event("session_terminated", response'.sid)>>]_vars

\* The request of caller c ends in this step, and not by the timeout.
Ends(c) == pc[c] # "idle" /\ pc'[c] = "idle" /\ ret'.by # "timeout"

\* What C32 says of a begin step and of the operator's reaction to it: the
\* event is published in the step that leaves the record stored and WAITING
\* and before the caller blocks, and an HTTP deliver that is the first thing
\* to happen to the conversation of a request in flight is accepted.
WaitingEventThenDeliver ==
    /\ ret'.op = "begin"
          => /\ published' = <<Event("session_waiting", ret'.session_id)>>
             /\ ret'.session_id \in DOMAIN sessions'
             /\ sessions'[ret'.session_id].state = WAITING
             /\ pc[ret'.caller] = "idle"
    /\ \A c \in Callers :
          (/\ response'.entry = "http" /\ response'.op = "instruct"
           /\ call[c].sid = response'.sid /\ seen[c] = {})
             => response'.status = "ok" /\ seen'[c] \in {{v} : v \in Values}

\* C32: in every begin the session_waiting event is published after the
\* record is stored in state WAITING and before the caller blocks, an operator
\* that reacts to it with a deliver finds the conversation WAITING, and the
\* request hands that instruction to its caller.
C32_WaitingEventBeforeBlock ==
    [][/\ WaitingEventThenDeliver
       /\ \A c \in Callers : \A v \in Values :
            (Ends(c) /\ seen[c] = {v})
                => /\ ret'.kind = "return"
                   /\ ret'.instruction = v /\ ~ret'.should_terminate]_vars

\* The same, for the requests whose publish runs to its end.
C32_ReceivedWhenPublishEnds ==
    [][/\ WaitingEventThenDeliver
       /\ \A c \in Callers : \A v \in Values :
            (Ends(c) /\ seen[c] = {v} /\ ret'.kind # "error")
                => /\ ret'.kind = "return"
                   /\ ret'.instruction = v /\ ~ret'.should_terminate]_vars

\* C33: through begin, continue, deliver, terminate and remove alone, with
\* their timeouts and wakes, no stored conversation is ever COMPLETED.
C33_NeverCompleted ==
    \A i \in DOMAIN sessions : sessions[i].state # COMPLETED

C33_Witness ==
    /\ ret.kind = "return" /\ ret.by = "wake" /\ ret.should_terminate
    /\ ret.session_id \in DOMAIN sessions
    /\ sessions[ret.session_id].state = TERMINATED
    /\ \E c \in Callers : pc[c] = "blocked" /\ call[c].sid = ret.session_id

\* The conversation a step is about: the one of the caller's request, or
\* the one the operator's request names.
StepSid == IF ret'.kind # "none" THEN ret'.session_id ELSE response'.sid

\* C34: an operation on one conversation leaves every other conversation
\* alone: whether it is stored, its record (state, context, pending
\* instruction), its wake signal object and flag, and the callers in flight
\* on it and where they stand.
C34_OtherConversationsUntouched ==
    [][\A Y \in Ids \ {StepSid} :
          /\ Y \in DOMAIN sessions <=> Y \in DOMAIN sessions'
          /\ Y \in DOMAIN instruction_events <=> Y \in DOMAIN instruction_events'
          /\ Y \in DOMAIN sessions => sessions'[Y] = sessions[Y]
          /\ Y \in DOMAIN instruction_events
                => /\ instruction_events'[Y] = instruction_events[Y]
                   /\ event_value'[instruction_events[Y]]
                         = event_value[instruction_events[Y]]
          /\ \A c \in Callers :
                /\ call'[c].sid = Y <=> call[c].sid = Y
                /\ call[c].sid = Y
                      => /\ pc'[c] = pc[c]
                         /\ call'[c].ev = call[c].ev
                         /\ call[c].ev # 0
                               => event_value'[call[c].ev]
                                     = event_value[call[c].ev]]_vars

C34_Witness ==
    /\ ret.kind = "return" /\ ret.by = "wake" /\ ret.session_id = "x"
    /\ ret.instruction = "a"
    /\ pc["c2"] = "blocked" /\ call["c2"].sid \in Uuids
    /\ sessions[call["c2"].sid].state = WAITING
    /\ ~event_value[call["c2"].ev]

C36_EmptyResultOnlyByTimeout ==
    (Returned /\ ret.instruction = None /\ ~ret.should_terminate)
        => ret.by = "timeout"

\* C37: for every stored conversation a pending instruction implies that the
\* conversation's wake signal is set, so no caller sleeps on the signal of a
\* conversation whose slot is full.
C37_PendingImpliesSignal ==
    \A i \in DOMAIN sessions :
        sessions[i].pending_instruction # None
            => /\ i \in DOMAIN instruction_events
               /\ event_value[instruction_events[i]]
               /\ Waiters(instruction_events[i]) = {}

C37_Witness ==
    /\ "x" \in DOMAIN sessions
    /\ sessions["x"].pending_instruction = "b"
    /\ sessions["x"].state = PROCESSING
    /\ event_value[instruction_events["x"]]
    /\ \E c \in Callers :
          pc[c] = "woken" /\ call[c].slept /\ call[c].ev = instruction_events["x"]

\* C38: a begin or continue returns should_terminate = true only if, when it
\* returns, the conversation is stored in state TERMINATED or is not in the
\* store (or has no wake signal): never for a stored conversation in another
\* state.
C38_TerminateFlagJustified ==
    (Returned /\ ret.should_terminate)
        => \/ ret.session_id \notin DOMAIN sessions
           \/ ret.session_id \notin DOMAIN instruction_events
           \/ sessions[ret.session_id].state = TERMINATED

C38_Witness ==
    /\ Woken /\ ret.should_terminate /\ ret.slept
    /\ ret.session_id \in DOMAIN sessions
    /\ sessions[ret.session_id].state = TERMINATED
    /\ ret.seen = Tapped

\* Caller c returns in this step from a block on a conversation that was
\* removed and created again since: the event it holds is not the one stored
\* under the id.
StaleReturn(c) ==
    /\ pc[c] \in {"blocked", "woken"} /\ pc'[c] = "idle"
    /\ call[c].sid \in DOMAIN sessions
    /\ instruction_events[call[c].sid] # call[c].ev

\* C39: a caller that blocked on a conversation that was removed and created
\* again under the same id never returns an instruction delivered to the new
\* conversation and never changes the new conversation's state, pending
\* instruction or wake signal.
C39_StaleWaiterHarmless ==
    [][\A c \in Callers :
          StaleReturn(c)
              => /\ ret'.instruction = None
                 /\ sessions' = sessions
                 /\ instruction_events' = instruction_events
                 /\ event_value'[instruction_events[call[c].sid]]
                       = event_value[instruction_events[call[c].sid]]]_vars

\* The same, for the callers that were still asleep when the conversation
\* was removed: their old signal is never set, they return by timeout.
C39_SleepingStaleWaiterHarmless ==
    [][\A c \in Callers :
          (StaleReturn(c) /\ pc[c] = "blocked")
              => /\ ret'.by = "timeout" /\ ret'.instruction = None
                 /\ sessions' = sessions
                 /\ instruction_events' = instruction_events
                 /\ event_value'[instruction_events[call[c].sid]]
                       = event_value[instruction_events[call[c].sid]]]_vars

====
